---- MODULE Spec2Model ----
(***************************************************************************)
(* Model of the bank-account aggregate of src/src/main.rs.                 *)
(*                                                                         *)
(* The aggregate (handle, apply), the view projector (View::update) and    *)
(* the logging query (dispatch) are translated from the source.  Amounts   *)
(* and balances are the integer-valued f64 of a bounded range, on which    *)
(* f64 addition, subtraction and comparison are exact.                     *)
(*                                                                         *)
(* The aggregate is driven in three ways, as in the source's tests:        *)
(*   mode = "unit"  : given(events).when(command), the harness of the unit *)
(*                    tests, and the view projector folding the same       *)
(*                    events;                                              *)
(*   mode = "store" : commands executed through the command executor over  *)
(*                    the event log store, as in test_event_store.  The    *)
(*                    executor and the store are collaborators whose code  *)
(*                    is not in src/; they follow spec.md 4.2, 4.3, 6.     *)
(*                    Several callers execute at once;                     *)
(*   mode = "serial": the same executor and store driven by one caller who *)
(*                    awaits each execute before the next, on one id and   *)
(*                    then another, which is what test_event_store does.   *)
(***************************************************************************)
EXTENDS Integers, Sequences, FiniteSets, TLC

\* ---------------------------------------------------------------- bounds
MaxAmount == 1
MaxBalance == 1
MaxGiven == 2
NumProcs == 2
MaxCmds == 2
MaxRetries == 1
MaxSerial == 6

\* amounts of commands (f64: negative amounts are representable)
Amounts == -1..MaxAmount
\* amounts and balances carried by the events of a given history
GivenAmounts == {1, 2}
Balances == -1..MaxBalance
Procs == 1..NumProcs

\* aggregate ids of test_event_store, account ids and check numbers
AggregateIds == {"aggregate-instance-Z", "aggregate-instance-B"}
AccountIds == {"acct"}
CheckNumbers == {"1337"}

\* ------------------------------------------------------ commands, events
Commands ==
    {[type |-> "OpenAccount", account_id |-> i] : i \in AccountIds}
    \cup {[type |-> "DepositMoney", amount |-> a] : a \in Amounts}
    \cup {[type |-> "WithdrawMoney", amount |-> a] : a \in Amounts}
    \cup {[type |-> "WriteCheck", check_number |-> c, amount |-> a] :
            c \in CheckNumbers, a \in Amounts}

\* the commands executed through the executor: an open, deposits (one of a
\* negative amount), withdrawals and a check
StoreCommands ==
    {[type |-> "OpenAccount", account_id |-> "acct"],
     [type |-> "DepositMoney", amount |-> 1],
     [type |-> "DepositMoney", amount |-> -1],
     [type |-> "WithdrawMoney", amount |-> 0],
     [type |-> "WithdrawMoney", amount |-> 1],
     [type |-> "WriteCheck", check_number |-> "1337", amount |-> 1]}

\* the commands test_event_store executes: a deposit and a check, which is
\* refused when no deposit covers it
SerialCommands ==
    {[type |-> "DepositMoney", amount |-> 1],
     [type |-> "WriteCheck", check_number |-> "1337", amount |-> 1]}

AccountOpened(i) == [type |-> "AccountOpened", account_id |-> i]

CustomerDepositedMoney(a, b) ==
    [type |-> "CustomerDepositedMoney", amount |-> a, balance |-> b]

CustomerWithdrewCash(a, b) ==
    [type |-> "CustomerWithdrewCash", amount |-> a, balance |-> b]

CustomerWroteCheck(c, a, b) ==
    [type |-> "CustomerWroteCheck", check_number |-> c, amount |-> a, balance |-> b]

\* the events a given history is drawn from
Events ==
    {AccountOpened(i) : i \in AccountIds}
    \cup {CustomerDepositedMoney(a, b) : a \in GivenAmounts, b \in Balances}
    \cup {CustomerWithdrewCash(a, b) : a \in GivenAmounts, b \in Balances}
    \cup {CustomerWroteCheck(c, a, b) :
            c \in CheckNumbers, a \in GivenAmounts, b \in Balances}

\* ------------------------------------------------------------- aggregate
\* #[derive(Default)] BankAccount
DefaultBankAccount == [opened |-> FALSE, balance |-> 0]

\* Result<Vec<Event>, BankAccountError>, with the calls handle made on the
\* injected services
Ok(evs) == [ok |-> TRUE, events |-> evs, error |-> "", calls |-> <<>>]

Err(msg) == [ok |-> FALSE, events |-> <<>>, error |-> msg, calls |-> <<>>]

FundsNotAvailable == "funds not available"

\* BankAccountServices::validate_check: accepts every check
validate_check(account, check) == "Ok"

\* a deposit that forgets the balance it starts from
handleDepositMoney_fromZero(self, amount) ==
    Ok(<<CustomerDepositedMoney(amount, amount)>>)

\* BankAccount::handle, the DepositMoney arm
handleDepositMoney(self, amount) ==
    LET balance == self.balance + amount
    IN  Ok(<<CustomerDepositedMoney(amount, balance)>>)

\* a withdrawal that also refuses to empty the account (<= for <)
handleWithdrawMoney_offByOne(self, amount) ==
    LET balance == self.balance - amount
    IN  IF balance <= 0
        THEN Err(FundsNotAvailable)
        ELSE Ok(<<CustomerWithdrewCash(amount, balance)>>)

\* a withdrawal without the funds check
handleWithdrawMoney_noCheck(self, amount) ==
    LET balance == self.balance - amount
    IN  Ok(<<CustomerWithdrewCash(amount, balance)>>)

\* BankAccount::handle, the WithdrawMoney arm
handleWithdrawMoney(self, amount) ==
    LET balance == self.balance - amount
    IN  IF balance < 0
        THEN Err(FundsNotAvailable)
        ELSE Ok(<<CustomerWithdrewCash(amount, balance)>>)

\* a check written without the funds check
handleWriteCheck_noCheck(self, check_number, amount) ==
    LET balance == self.balance - amount
    IN  Ok(<<CustomerWroteCheck(check_number, amount, balance)>>)

\* BankAccount::handle, the WriteCheck arm
handleWriteCheck(self, check_number, amount) ==
    LET balance == self.balance - amount
    IN  IF balance < 0
        THEN Err(FundsNotAvailable)
        ELSE Ok(<<CustomerWroteCheck(check_number, amount, balance)>>)

\* a wildcard arm that rejects the command it does not know
handleOther_rejects(self, command) == Err("unknown command")

\* an OpenAccount arm that emits AccountOpened whatever the state
handleOther_alwaysOpens(self, command) ==
    IF command.type = "OpenAccount"
    THEN Ok(<<AccountOpened(command.account_id)>>)
    ELSE Ok(<<>>)

\* BankAccount::handle, the wildcard arm: every other command (OpenAccount)
handleOther(self, command) == Ok(<<>>)

\* BankAccount::handle
handle(self, command) ==
    CASE command.type = "DepositMoney" -> handleDepositMoney(self, command.amount)
      [] command.type = "WithdrawMoney" -> handleWithdrawMoney(self, command.amount)
      [] command.type = "WriteCheck" ->
            handleWriteCheck(self, command.check_number, command.amount)
      [] OTHER -> handleOther(self, command)

\* an apply whose CustomerWroteCheck arm was left as todo!(): it yields no state
apply_todoCheck(self, event) ==
    CASE event.type = "AccountOpened" -> [self EXCEPT !.opened = TRUE]
      [] event.type = "CustomerDepositedMoney" -> [self EXCEPT !.balance = event.balance]
      [] event.type = "CustomerWithdrewCash" -> [self EXCEPT !.balance = event.balance]
      [] event.type = "CustomerWroteCheck" ->
            [opened |-> FALSE, balance |-> 0, panic |-> "not yet implemented"]

\* an apply that recomputes the balance of a withdrawal from its amount
apply_recomputes(self, event) ==
    CASE event.type = "AccountOpened" -> [self EXCEPT !.opened = TRUE]
      [] event.type = "CustomerDepositedMoney" -> [self EXCEPT !.balance = event.balance]
      [] event.type = "CustomerWithdrewCash" ->
            [self EXCEPT !.balance = self.balance - event.amount]
      [] event.type = "CustomerWroteCheck" -> [self EXCEPT !.balance = event.balance]

\* an apply whose deposit arm builds the state anew, losing the opened flag
apply_rebuildsState(self, event) ==
    CASE event.type = "AccountOpened" -> [self EXCEPT !.opened = TRUE]
      [] event.type = "CustomerDepositedMoney" ->
            [opened |-> FALSE, balance |-> event.balance]
      [] event.type = "CustomerWithdrewCash" -> [self EXCEPT !.balance = event.balance]
      [] event.type = "CustomerWroteCheck" -> [self EXCEPT !.balance = event.balance]

\* an apply whose AccountOpened arm also resets the balance
apply_openResetsBalance(self, event) ==
    CASE event.type = "AccountOpened" -> [opened |-> TRUE, balance |-> 0]
      [] event.type = "CustomerDepositedMoney" -> [self EXCEPT !.balance = event.balance]
      [] event.type = "CustomerWithdrewCash" -> [self EXCEPT !.balance = event.balance]
      [] event.type = "CustomerWroteCheck" -> [self EXCEPT !.balance = event.balance]

\* BankAccount::apply
apply(self, event) ==
    CASE event.type = "AccountOpened" -> [self EXCEPT !.opened = TRUE]
      [] event.type = "CustomerDepositedMoney" -> [self EXCEPT !.balance = event.balance]
      [] event.type = "CustomerWithdrewCash" -> [self EXCEPT !.balance = event.balance]
      [] event.type = "CustomerWroteCheck" -> [self EXCEPT !.balance = event.balance]

\* replay: the left fold of apply over a history, from the zero-value state
RECURSIVE Fold(_, _)
Fold(self, events) ==
    IF events = <<>> THEN self
    ELSE Fold(apply(self, Head(events)), Tail(events))

\* ------------------------------------------------------------------ view
\* an EventEnvelope
Envelope(id, n, e) == [aggregate_id |-> id, sequence |-> n, payload |-> e]

\* View<BankAccount>::update: the view after the event, or the panic of todo!()
ViewOk(v) == [ok |-> TRUE, view |-> v, panic |-> ""]

ViewPanic == [ok |-> FALSE, view |-> DefaultBankAccount, panic |-> "not yet implemented"]

update(self, event) ==
    CASE event.payload.type = "CustomerDepositedMoney" ->
            ViewOk([self EXCEPT !.balance = event.payload.balance])
      [] event.payload.type = "AccountOpened" -> ViewPanic
      [] event.payload.type = "CustomerWithdrewCash" -> ViewPanic
      [] event.payload.type = "CustomerWroteCheck" -> ViewPanic

\* ----------------------------------------------------------------- query
\* a dispatch that prints every event twice
RECURSIVE dispatch_twice(_, _)
dispatch_twice(aggregate_id, events) ==
    IF events = <<>> THEN <<>>
    ELSE <<[aggregate_id |-> aggregate_id,
            sequence |-> Head(events).sequence,
            payload |-> Head(events).payload],
           [aggregate_id |-> aggregate_id,
            sequence |-> Head(events).sequence,
            payload |-> Head(events).payload]>>
         \o dispatch_twice(aggregate_id, Tail(events))

\* SimpleLoggingQuery::dispatch: one printed line per event, in slice order
RECURSIVE dispatch(_, _)
dispatch(aggregate_id, events) ==
    IF events = <<>> THEN <<>>
    ELSE <<[aggregate_id |-> aggregate_id,
            sequence |-> Head(events).sequence,
            payload |-> Head(events).payload]>>
         \o dispatch(aggregate_id, Tail(events))

\* ----------------------------------------------------- event log store
\* last committed sequence of a stream, 0 when it is empty
LastSequence(envelopes) ==
    IF envelopes = <<>> THEN 0 ELSE envelopes[Len(envelopes)].sequence

\* the events of a stream, in stored order
Payloads(envelopes) == [k \in 1..Len(envelopes) |-> envelopes[k].payload]

\* envelopes for new events, numbered from current_sequence + 1
wrap_events(aggregate_id, current_sequence, events) ==
    [k \in 1..Len(events) |-> Envelope(aggregate_id, current_sequence + k, events[k])]

\* a store that keeps one stream for all aggregate ids
stream_shared(store, aggregate_id) == store["aggregate-instance-Z"]

\* the stream of one aggregate id
stream(store, aggregate_id) == store[aggregate_id]

\* an append that never checks the expected sequence
append_noConflictCheck(envelopes, aggregate_id, expected_last_sequence, events) ==
    LET wrapped == wrap_events(aggregate_id, expected_last_sequence, events)
    IN  [ok |-> TRUE, committed |-> wrapped, stream |-> envelopes \o wrapped]

\* conditional append: succeeds only if nothing was appended since the load
\* that returned expected_last_sequence
append(envelopes, aggregate_id, expected_last_sequence, events) ==
    IF events = <<>>
    THEN [ok |-> TRUE, committed |-> <<>>, stream |-> envelopes]
    ELSE IF LastSequence(envelopes) # expected_last_sequence
    THEN [ok |-> FALSE, committed |-> <<>>, stream |-> envelopes]
    ELSE LET wrapped == wrap_events(aggregate_id, expected_last_sequence, events)
         IN  [ok |-> TRUE, committed |-> wrapped, stream |-> envelopes \o wrapped]

\* ----------------------------------------------------------------- state
VARIABLES
    mode,       \* "unit": given/when harness; "store": executor over the store,
                \* concurrent callers; "serial": the same, one awaiting caller
    given,      \* unit: the events given as previous history
    result,     \* unit: the command handled and what handle returned
    viewOut,    \* unit: what folding the given events by View::update gave
    log,        \* store: aggregate id -> stream of committed envelopes
    printed,    \* store: the lines SimpleLoggingQuery received, in order
    pc,         \* store: position of each execution
    agg,        \* store: aggregate id of each execution
    cmd,        \* store: command of each execution
    ctx,        \* store: state and sequence loaded by each execution
    resultant,  \* store: events returned by handle
    attempts,   \* store: retries made so far
    tried,      \* store: the sequences the execution tried to append at
    committed,  \* store: envelopes the execution committed
    status,     \* store: outcome returned to the caller
    execCount,  \* store: executions started per aggregate id
    issued,     \* store: the commands executed on each id, in the order issued
    overlapped  \* store: whether two executions on the id ever ran at once

vars == <<mode, given, result, viewOut, log, printed, pc, agg, cmd, ctx,
          resultant, attempts, tried, committed, status, execCount, issued,
          overlapped>>

unitVars == <<given, result, viewOut>>

storeVars == <<log, printed, pc, agg, cmd, ctx, resultant, attempts, tried,
               committed, status, execCount, issued, overlapped>>

None == [type |-> "None"]

NoContext == [state |-> DefaultBankAccount, seq |-> 0]

Init ==
    /\ mode \in {"unit", "store", "serial"}
    /\ given = <<>>
    /\ result = None
    /\ viewOut = None
    /\ log = [id \in AggregateIds |-> <<>>]
    /\ printed = <<>>
    /\ pc = [p \in Procs |-> "idle"]
    /\ agg = [p \in Procs |-> "none"]
    /\ cmd = [p \in Procs |-> None]
    /\ ctx = [p \in Procs |-> NoContext]
    /\ resultant = [p \in Procs |-> <<>>]
    /\ attempts = [p \in Procs |-> 0]
    /\ tried = [p \in Procs |-> <<>>]
    /\ committed = [p \in Procs |-> <<>>]
    /\ status = [p \in Procs |-> "none"]
    /\ execCount = [id \in AggregateIds |-> 0]
    /\ issued = [id \in AggregateIds |-> <<>>]
    /\ overlapped = [id \in AggregateIds |-> FALSE]

\* ---------------------------------------------------------- unit harness
\* given(events): one more previous event
Given(e) ==
    /\ mode = "unit"
    /\ result = None
    /\ viewOut = None
    /\ Len(given) < MaxGiven
    /\ given' = Append(given, e)
    /\ UNCHANGED <<mode, result, viewOut>>
    /\ UNCHANGED storeVars

\* when(command): replay the given events, then handle the command
When(c) ==
    /\ mode = "unit"
    /\ result = None
    /\ viewOut = None
    /\ result' = [type |-> "Handled", command |-> c,
                  state |-> Fold(DefaultBankAccount, given),
                  out |-> handle(Fold(DefaultBankAccount, given), c)]
    /\ UNCHANGED <<mode, given, viewOut>>
    /\ UNCHANGED storeVars

\* the view projector folding envelopes: stops at the first panic
RECURSIVE FoldView(_, _)
FoldView(view, envelopes) ==
    IF envelopes = <<>> THEN ViewOk(view)
    ELSE LET r == update(view, Head(envelopes))
         IN  IF r.ok THEN FoldView(r.view, Tail(envelopes)) ELSE r

\* the given events reach the view projector as envelopes 1..n of one stream
Project ==
    /\ mode = "unit"
    /\ result = None
    /\ viewOut = None
    /\ given # <<>>
    /\ viewOut' = [type |-> "Projected",
                   out |-> FoldView(DefaultBankAccount,
                                    wrap_events("aggregate-instance-Z", 0, given))]
    /\ UNCHANGED <<mode, given, result>>
    /\ UNCHANGED storeVars

\* -------------------------------------------------------- command executor
RECURSIVE SumCount(_, _)
SumCount(f, S) ==
    IF S = {} THEN 0
    ELSE LET x == CHOOSE y \in S : TRUE IN f[x] + SumCount(f, S \ {x})

\* a sequence back to front
Reversed(events) == [k \in 1..Len(events) |-> events[Len(events) + 1 - k]]

\* a load that applies the events of the stream newest first
load_newestFirst(envelopes) ==
    [state |-> Fold(DefaultBankAccount, Reversed(Payloads(envelopes))),
     seq |-> LastSequence(envelopes)]

\* steps 1 and 2: read the stream and fold it from the zero-value state
load(envelopes) ==
    [state |-> Fold(DefaultBankAccount, Payloads(envelopes)),
     seq |-> LastSequence(envelopes)]

\* an execution between its load and its end
InFlight(p) == pc[p] \notin {"idle", "done"}

\* execute(aggregate_id, command): a caller starts an execution, which loads
\* the aggregate.  The one caller of the serial mode has awaited its previous
\* execute.
Execute(p, id, c) ==
    /\ mode \in {"store", "serial"}
    /\ pc[p] \in {"idle", "done"}
    /\ IF mode = "serial"
       THEN /\ p = 1
            /\ c \in SerialCommands
            /\ SumCount(execCount, AggregateIds) < MaxSerial
       ELSE SumCount(execCount, AggregateIds) < MaxCmds
    /\ pc' = [pc EXCEPT ![p] = "loaded"]
    /\ agg' = [agg EXCEPT ![p] = id]
    /\ cmd' = [cmd EXCEPT ![p] = c]
    /\ ctx' = [ctx EXCEPT ![p] = load(stream(log, id))]
    /\ resultant' = [resultant EXCEPT ![p] = <<>>]
    /\ attempts' = [attempts EXCEPT ![p] = 0]
    /\ tried' = [tried EXCEPT ![p] = <<>>]
    /\ committed' = [committed EXCEPT ![p] = <<>>]
    /\ status' = [status EXCEPT ![p] = "running"]
    /\ execCount' = [execCount EXCEPT ![id] = @ + 1]
    /\ issued' = [issued EXCEPT ![id] = Append(@, c)]
    /\ overlapped' = [overlapped EXCEPT ![id] =
                         @ \/ \E q \in Procs \ {p} : agg[q] = id /\ InFlight(q)]
    /\ UNCHANGED <<log, printed, mode>>
    /\ UNCHANGED unitVars

\* a retry starts over from step 1: a fresh read of the stream
Reload(p) ==
    /\ pc[p] = "retry"
    /\ ctx' = [ctx EXCEPT ![p] = load(stream(log, agg[p]))]
    /\ pc' = [pc EXCEPT ![p] = "loaded"]
    /\ UNCHANGED <<log, printed, agg, cmd, resultant, attempts, tried, committed,
                   status, execCount, issued, overlapped, mode>>
    /\ UNCHANGED unitVars

\* step 3, handle succeeded: keep the events to append
HandleOk(p) ==
    /\ pc[p] = "loaded"
    /\ handle(ctx[p].state, cmd[p]).ok
    /\ resultant' = [resultant EXCEPT ![p] = handle(ctx[p].state, cmd[p]).events]
    /\ pc' = [pc EXCEPT ![p] = "handled"]
    /\ UNCHANGED <<log, printed, agg, cmd, ctx, attempts, tried, committed,
                   status, execCount, issued, overlapped, mode>>
    /\ UNCHANGED unitVars

\* step 7, handle returned a domain error: rejected, nothing appended
HandleErr(p) ==
    /\ pc[p] = "loaded"
    /\ ~handle(ctx[p].state, cmd[p]).ok
    /\ status' = [status EXCEPT ![p] = handle(ctx[p].state, cmd[p]).error]
    /\ pc' = [pc EXCEPT ![p] = "done"]
    /\ UNCHANGED <<log, printed, agg, cmd, ctx, resultant, attempts, tried,
                   committed, execCount, issued, overlapped, mode>>
    /\ UNCHANGED unitVars

\* step 4, the conditional append succeeded
Commit(p) ==
    /\ pc[p] = "handled"
    /\ LET r == append(stream(log, agg[p]), agg[p], ctx[p].seq, resultant[p])
       IN  /\ r.ok
           /\ log' = [log EXCEPT ![agg[p]] = r.stream]
           /\ committed' = [committed EXCEPT ![p] = r.committed]
    /\ tried' = [tried EXCEPT ![p] =
                    IF resultant[p] = <<>> THEN @ ELSE Append(@, ctx[p].seq + 1)]
    /\ pc' = [pc EXCEPT ![p] = "committed"]
    /\ UNCHANGED <<printed, agg, cmd, ctx, resultant, attempts, status,
                   execCount, issued, overlapped, mode>>
    /\ UNCHANGED unitVars

\* step 6, the append conflicted: retry from step 1, a bounded number of times
Conflict(p) ==
    /\ pc[p] = "handled"
    /\ ~append(stream(log, agg[p]), agg[p], ctx[p].seq, resultant[p]).ok
    /\ tried' = [tried EXCEPT ![p] = Append(@, ctx[p].seq + 1)]
    /\ IF attempts[p] < MaxRetries
       THEN /\ attempts' = [attempts EXCEPT ![p] = @ + 1]
            /\ pc' = [pc EXCEPT ![p] = "retry"]
            /\ UNCHANGED status
       ELSE /\ status' = [status EXCEPT ![p] = "concurrency conflict"]
            /\ pc' = [pc EXCEPT ![p] = "done"]
            /\ UNCHANGED attempts
    /\ UNCHANGED <<log, printed, agg, cmd, ctx, resultant, committed,
                   execCount, issued, overlapped, mode>>
    /\ UNCHANGED unitVars

\* step 5: the committed envelopes go to the registered query, then success
Dispatch(p) ==
    /\ pc[p] = "committed"
    /\ printed' = printed \o dispatch(agg[p], committed[p])
    /\ status' = [status EXCEPT ![p] = "ok"]
    /\ pc' = [pc EXCEPT ![p] = "done"]
    /\ UNCHANGED <<log, agg, cmd, ctx, resultant, attempts, tried, committed,
                   execCount, issued, overlapped, mode>>
    /\ UNCHANGED unitVars

Next ==
    \/ \E e \in Events : Given(e)
    \/ \E c \in Commands : When(c)
    \/ Project
    \/ \E p \in Procs, id \in AggregateIds, c \in StoreCommands : Execute(p, id, c)
    \/ \E p \in Procs : Reload(p)
    \/ \E p \in Procs : HandleOk(p)
    \/ \E p \in Procs : HandleErr(p)
    \/ \E p \in Procs : Commit(p)
    \/ \E p \in Procs : Conflict(p)
    \/ \E p \in Procs : Dispatch(p)

Spec == Init /\ [][Next]_vars

\* ================================================================ claims
\* the variants that carry a balance
BalanceEvents ==
    {"CustomerDepositedMoney", "CustomerWithdrewCash", "CustomerWroteCheck"}

\* the balance carried by the last balance-carrying event of a history, 0 if
\* there is none
RECURSIVE LastBalance(_)
LastBalance(events) ==
    IF events = <<>> THEN 0
    ELSE IF events[Len(events)].type \in BalanceEvents
    THEN events[Len(events)].balance
    ELSE LastBalance(SubSeq(events, 1, Len(events) - 1))

\* whether a history holds an AccountOpened
HasOpened(events) == \E k \in 1..Len(events) : events[k].type = "AccountOpened"

Handled(t) == result.type = "Handled" /\ result.command.type = t

\* the history an execution loaded: the first ctx.seq events of its stream
Loaded(p) == Payloads(SubSeq(log[agg[p]], 1, ctx[p].seq))

\* C1: DepositMoney{a} always succeeds with exactly one event,
\* CustomerDepositedMoney{a, b + a}, where b is the last balance of the
\* history replayed (0 for an empty history); in the unit harness and in
\* every execution through the executor.
C1_DepositEmits ==
    /\ Handled("DepositMoney") =>
          /\ result.out.ok
          /\ result.out.events =
                <<CustomerDepositedMoney(result.command.amount,
                                         LastBalance(given) + result.command.amount)>>
    /\ \A p \in Procs :
          (pc[p] = "handled" /\ cmd[p].type = "DepositMoney") =>
             resultant[p] =
                <<CustomerDepositedMoney(cmd[p].amount,
                                         LastBalance(Loaded(p)) + cmd[p].amount)>>

\* C1 witness: a deposit of 1 handled after a history whose last balance is 1
C1_Witness ==
    /\ Handled("DepositMoney")
    /\ given # <<>>
    /\ LastBalance(given) = 1
    /\ result.command.amount = 1
    /\ result.out.events = <<CustomerDepositedMoney(1, 2)>>

\* C2: WithdrawMoney{a} returns the error "funds not available" and no
\* event exactly when b - a < 0, and otherwise exactly one event
\* CustomerWithdrewCash{a, b - a}; b - a = 0 is accepted.
C2_WithdrawRule ==
    Handled("WithdrawMoney") =>
        LET a == result.command.amount
            b == LastBalance(given)
        IN  IF b - a < 0
            THEN /\ ~result.out.ok
                 /\ result.out.error = "funds not available"
                 /\ result.out.events = <<>>
            ELSE /\ result.out.ok
                 /\ result.out.events = <<CustomerWithdrewCash(a, b - a)>>

\* C2 witness: a withdrawal of the whole balance, accepted with balance 0
C2_Witness ==
    /\ Handled("WithdrawMoney")
    /\ LastBalance(given) = 1
    /\ result.command.amount = 1
    /\ result.out.ok
    /\ result.out.events = <<CustomerWithdrewCash(1, 0)>>

\* C3: WriteCheck{c, a} follows the rule of a withdrawal: the error "funds
\* not available" and no event exactly when b - a < 0, and otherwise exactly
\* one event CustomerWroteCheck{c, a, b - a}.
C3_WriteCheckRule ==
    Handled("WriteCheck") =>
        LET a == result.command.amount
            c == result.command.check_number
            b == LastBalance(given)
        IN  IF b - a < 0
            THEN /\ ~result.out.ok
                 /\ result.out.error = "funds not available"
                 /\ result.out.events = <<>>
            ELSE /\ result.out.ok
                 /\ result.out.events = <<CustomerWroteCheck(c, a, b - a)>>

\* C3 witness: a check of 1 refused on a history that ends with balance 0
C3_Witness ==
    /\ Handled("WriteCheck")
    /\ given # <<>>
    /\ LastBalance(given) = 0
    /\ result.command.amount = 1
    /\ ~result.out.ok
    /\ result.out.error = "funds not available"

\* C4 (as claimed): whenever handle emits a CustomerWroteCheck it has
\* consulted validate_check on the services first.
C4_ServiceConsulted ==
    (/\ Handled("WriteCheck")
     /\ \E k \in 1..Len(result.out.events) :
           result.out.events[k].type = "CustomerWroteCheck")
    => \E k \in 1..Len(result.out.calls) : result.out.calls[k] = "validate_check"

\* C5 (as claimed): OpenAccount{i} on a state that is not opened succeeds
\* with exactly one event AccountOpened{i}.
C5_OpenEmits ==
    (Handled("OpenAccount") /\ ~HasOpened(given)) =>
        /\ result.out.ok
        /\ result.out.events = <<AccountOpened(result.command.account_id)>>

\* number of AccountOpened events in a stream
RECURSIVE CountOpened(_)
CountOpened(envelopes) ==
    IF envelopes = <<>> THEN 0
    ELSE (IF Head(envelopes).payload.type = "AccountOpened" THEN 1 ELSE 0)
         + CountOpened(Tail(envelopes))

\* C6: OpenAccount against an opened state never emits AccountOpened (it is
\* rejected or a no-op), and no stream of the store ever holds more than one
\* AccountOpened.
C6_NoSecondOpen ==
    /\ (Handled("OpenAccount") /\ HasOpened(given)) =>
          \A k \in 1..Len(result.out.events) :
             result.out.events[k].type # "AccountOpened"
    /\ \A p \in Procs :
          (pc[p] = "handled" /\ cmd[p].type = "OpenAccount"
              /\ HasOpened(Loaded(p))) =>
             \A k \in 1..Len(resultant[p]) : resultant[p][k].type # "AccountOpened"
    /\ \A id \in AggregateIds : CountOpened(log[id]) <= 1

\* C6 witness: OpenAccount handled on a history that holds an AccountOpened
C6_Witness ==
    /\ Handled("OpenAccount")
    /\ HasOpened(given)
    /\ result.state.opened
    /\ result.out.ok
    /\ result.out.events = <<>>

\* a withdrawal or a check that the loaded balance does not cover
InsufficientFunds(p) ==
    /\ cmd[p].type \in {"WithdrawMoney", "WriteCheck"}
    /\ LastBalance(Loaded(p)) - cmd[p].amount < 0

\* C7: the step of an execution whose command handle rejects (a withdrawal
\* or a check the balance does not cover) appends nothing: the streams and
\* the lines the query received are unchanged, the execution has committed
\* nothing, and it ends with the error, without another attempt.
C7_RejectAppendsNothing ==
    [][\A p \in Procs :
          (/\ pc[p] = "loaded"
           /\ pc'[p] # "loaded"
           /\ \/ InsufficientFunds(p)
              \/ ~handle(ctx[p].state, cmd[p]).ok)
          => /\ log' = log
             /\ printed' = printed
             /\ pc'[p] = "done"
             /\ status'[p] = "funds not available"
             /\ attempts'[p] = attempts[p]
             /\ committed'[p] = <<>>]_vars

\* C7 witness: a rejected execution on a stream that already holds an event
C7_Witness ==
    \E p \in Procs :
        /\ pc[p] = "done"
        /\ status[p] = "funds not available"
        /\ log[agg[p]] # <<>>
        /\ committed[p] = <<>>

\* two finished executions on one aggregate id that no other execution
\* touched, both of which first tried to append at sequence 1
BothExpectedFirst(id, p, q) ==
    /\ p # q
    /\ execCount[id] = 2
    /\ agg[p] = id /\ agg[q] = id
    /\ pc[p] = "done" /\ pc[q] = "done"
    /\ tried[p] # <<>> /\ tried[q] # <<>>
    /\ tried[p][1] = 1 /\ tried[q][1] = 1

\* w appended at sequence 1 at its first attempt
WonFirst(id, w) ==
    /\ tried[w] = <<1>>
    /\ attempts[w] = 0
    /\ status[w] = "ok"
    /\ committed[w] = <<log[id][1]>>
    /\ log[id][1].sequence = 1

\* l conflicted at sequence 1, read the stream again and appended at 2
RetriedAndSucceeded(id, l) ==
    /\ tried[l] = <<1, 2>>
    /\ attempts[l] = 1
    /\ status[l] = "ok"
    /\ Len(log[id]) = 2
    /\ committed[l] = <<log[id][2]>>
    /\ log[id][2].sequence = 2
    /\ committed[l] =
          wrap_events(id, 1, handle(apply(DefaultBankAccount, log[id][1].payload),
                                    cmd[l]).events)

\* l conflicted at sequence 1, read the stream again and was rejected by
\* handle against the state it then found
RetriedAndRejected(id, l) ==
    /\ tried[l] = <<1>>
    /\ attempts[l] = 1
    /\ status[l] = "funds not available"
    /\ committed[l] = <<>>
    /\ Len(log[id]) = 1
    /\ ~handle(apply(DefaultBankAccount, log[id][1].payload), cmd[l]).ok

\* C8 (as claimed): of two executions that both expected to append at
\* sequence 1 on a fresh aggregate id, one succeeds at 1 and the other
\* retries and succeeds at 2.
C8_OneWinsOtherRetries ==
    \A id \in AggregateIds : \A p, q \in Procs :
        BothExpectedFirst(id, p, q) =>
            \E w, l \in {p, q} :
                /\ w # l
                /\ WonFirst(id, w)
                /\ RetriedAndSucceeded(id, l)

\* C8 (amended): one succeeds at sequence 1; the other detects the
\* conflict, retries once from a fresh read and either succeeds at sequence
\* 2 or is rejected by handle against the fresh state, appending nothing.
\* No stream ever holds two events with the same sequence.
C8_OneWinsOtherRetriesOrRejected ==
    /\ \A id \in AggregateIds : \A p, q \in Procs :
          BothExpectedFirst(id, p, q) =>
              \E w, l \in {p, q} :
                  /\ w # l
                  /\ WonFirst(id, w)
                  /\ RetriedAndSucceeded(id, l) \/ RetriedAndRejected(id, l)
    /\ \A id \in AggregateIds : \A j, k \in 1..Len(log[id]) :
          j # k => log[id][j].sequence # log[id][k].sequence

\* C8 witness: the loser of the race has retried and committed at sequence 2
C8_Witness ==
    \E id \in AggregateIds : \E p, q \in Procs :
        /\ BothExpectedFirst(id, p, q)
        /\ WonFirst(id, p)
        /\ RetriedAndSucceeded(id, q)

\* C9: in every stream the k-th event has sequence k and the stream's own
\* id, so the sequences start at 1 and increase by one without duplicate;
\* what an execution has loaded is the events 1..n of its stream for the
\* sequence n it read, applied oldest first: its state carries the balance
\* of the last of them that carries one, and is opened if one of them opens.
C9_SequencesIncrease ==
    /\ \A id \in AggregateIds : \A k \in 1..Len(log[id]) :
          /\ log[id][k].sequence = k
          /\ log[id][k].aggregate_id = id
    /\ \A p \in Procs :
          agg[p] \in AggregateIds =>
             /\ ctx[p].seq <= Len(log[agg[p]])
             /\ ctx[p].state = [opened |-> HasOpened(Loaded(p)),
                                balance |-> LastBalance(Loaded(p))]

\* C9 witness: an execution that read back a deposit at sequence 1 and a
\* check at sequence 2, whose balances differ, loaded the balance of the
\* check and committed its own event at sequence 3
C9_Witness ==
    \E p \in Procs :
        /\ agg[p] \in AggregateIds
        /\ ctx[p].seq = 2
        /\ Loaded(p) = <<CustomerDepositedMoney(1, 1), CustomerWroteCheck("1337", 1, 0)>>
        /\ ctx[p].state = [opened |-> FALSE, balance |-> 0]
        /\ Len(committed[p]) = 1
        /\ committed[p][1].sequence = 3
        /\ log[agg[p]][3] = committed[p][1]

\* C10 (as claimed): View::update yields a view for every event variant, so
\* folding any history into the view completes.
C10_UpdateTotal ==
    viewOut.type = "Projected" => viewOut.out.ok

\* C11 (as claimed): folding a history into the view by View::update gives
\* the balance and the opened flag that folding it by apply gives.
C11_ViewMirrorsAggregate ==
    viewOut.type = "Projected" =>
        /\ viewOut.out.ok
        /\ viewOut.out.view.balance = Fold(DefaultBankAccount, given).balance
        /\ viewOut.out.view.opened = Fold(DefaultBankAccount, given).opened

\* an aggregate state: the two fields of BankAccount and nothing else
IsState(s) ==
    /\ DOMAIN s = {"opened", "balance"}
    /\ s.opened \in BOOLEAN
    /\ s.balance \in Int

\* a history without its last event
Front(events) == SubSeq(events, 1, Len(events) - 1)

\* C12: apply yields a state for every state and every event variant, the
\* fold of a history extended by e is apply of the fold of the history and
\* e, and replaying the given history again yields the state it yielded
\* when the command was handled.
C12_FoldLaw ==
    /\ IsState(Fold(DefaultBankAccount, given))
    /\ \A e \in Events : IsState(apply(Fold(DefaultBankAccount, given), e))
    /\ given # <<>> =>
          Fold(DefaultBankAccount, given) =
             apply(Fold(DefaultBankAccount, Front(given)), given[Len(given)])
    /\ result.type = "Handled" => result.state = Fold(DefaultBankAccount, given)
    /\ \A p \in Procs : IsState(ctx[p].state)

\* C12 witness: a command handled on the replay of a history of two events
\* that ends with a CustomerWroteCheck
C12_Witness ==
    /\ result.type = "Handled"
    /\ Len(given) = 2
    /\ given[1].type = "AccountOpened"
    /\ given[2].type = "CustomerWroteCheck"
    /\ result.state = [opened |-> TRUE, balance |-> given[2].balance]

\* C13: the balance of a replayed state is the balance carried by the last
\* balance-carrying event of the history, whatever the amounts, and 0 when
\* the history holds none; for given histories and for what executions load.
C13_BalanceIsLastCarried ==
    /\ Fold(DefaultBankAccount, given).balance = LastBalance(given)
    /\ result.type = "Handled" => result.state.balance = LastBalance(given)
    /\ \A p \in Procs :
          agg[p] \in AggregateIds => ctx[p].state.balance = LastBalance(Loaded(p))

\* C13 witness: the replay of a withdrawal of amount 2 carrying balance -1,
\* followed by an AccountOpened, has balance -1
C13_Witness ==
    /\ result.type = "Handled"
    /\ given = <<CustomerWithdrewCash(2, -1), AccountOpened("acct")>>
    /\ result.state.balance = -1

\* C14: opened is false in the zero-value state, turns true only in a step
\* that applies an AccountOpened, and once true stays true; for the replay
\* of the given history as it grows and for the replay of every stream.
C14_OpenedMonotone ==
    [][/\ LET s == Fold(DefaultBankAccount, given)
              t == Fold(DefaultBankAccount, given')
          IN  /\ given = <<>> => ~s.opened
              /\ s.opened => t.opened
              /\ (~s.opened /\ t.opened) =>
                    /\ Len(given') = Len(given) + 1
                    /\ given'[Len(given')].type = "AccountOpened"
       /\ \A id \in AggregateIds :
             LET s == Fold(DefaultBankAccount, Payloads(log[id]))
                 t == Fold(DefaultBankAccount, Payloads(log'[id]))
             IN  /\ log[id] = <<>> => ~s.opened
                 /\ s.opened => t.opened
                 /\ (~s.opened /\ t.opened) =>
                       /\ Len(log'[id]) = Len(log[id]) + 1
                       /\ log'[id][Len(log'[id])].payload.type = "AccountOpened"]_vars

\* C14 witness: a history opened by its first event and still opened after
\* a later deposit
C14_Witness ==
    /\ Len(given) = 2
    /\ given[1].type = "AccountOpened"
    /\ given[2].type = "CustomerDepositedMoney"
    /\ Fold(DefaultBankAccount, given).opened

\* C15: applying the last event of a history to the state before it
\* overwrites the fields the event carries and no other: AccountOpened sets
\* opened and leaves the balance, a balance-carrying event sets the balance
\* to the one it carries and leaves opened.
C15_ApplyFrame ==
    given # <<>> =>
        LET e == given[Len(given)]
            s == [opened |-> HasOpened(Front(given)),
                  balance |-> LastBalance(Front(given))]
            t == Fold(DefaultBankAccount, given)
        IN  /\ t = apply(s, e)
            /\ IF e.type = "AccountOpened"
               THEN t.opened /\ t.balance = s.balance
               ELSE t.balance = e.balance /\ t.opened = s.opened

\* C15 witness: an AccountOpened applied to a state of balance 1 leaves the
\* balance at 1
C15_Witness ==
    /\ result.type = "Handled"
    /\ Len(given) = 2
    /\ given[1].type = "CustomerDepositedMoney"
    /\ given[1].balance = 1
    /\ given[2].type = "AccountOpened"
    /\ result.state = [opened |-> TRUE, balance |-> 1]

\* C16: a command no arm of handle recognizes (OpenAccount) makes handle
\* return success with no event, never an error; its execution passes every
\* step of the executor, commits nothing, leaves every stream (and so every
\* last sequence) and the query's lines unchanged, and ends with success.
C16_UnrecognizedIsNoOp ==
    [][/\ (result'.type = "Handled" /\ result'.command.type = "OpenAccount") =>
             /\ result'.out.ok
             /\ result'.out.error = ""
             /\ result'.out.events = <<>>
       /\ \A p \in Procs :
             (cmd[p].type = "OpenAccount" /\ pc'[p] # pc[p]) =>
                /\ log' = log
                /\ printed' = printed
                /\ committed'[p] = <<>>
                /\ attempts'[p] = 0
                /\ pc[p] = "loaded" => (pc'[p] = "handled" /\ resultant'[p] = <<>>)
                /\ pc[p] = "handled" => pc'[p] = "committed"
                /\ pc[p] = "committed" => (pc'[p] = "done" /\ status'[p] = "ok")
                /\ pc[p] \in {"loaded", "handled", "committed", "done"}]_vars

\* C16 witness: an OpenAccount executed to success on a stream that holds
\* one event, which is all the stream holds afterwards
C16_Witness ==
    \E p \in Procs :
        /\ cmd[p].type = "OpenAccount"
        /\ pc[p] = "done"
        /\ status[p] = "ok"
        /\ ctx[p].seq = 1
        /\ Len(log[agg[p]]) = 1
        /\ committed[p] = <<>>
        /\ Len(printed) = 1

\* the stream an aggregate id holds after the commands are executed on it
\* one after the other with no other id in the store: each command is
\* handled on the replay of the stream so far and its events, if any, are
\* numbered on from the stream's length
RECURSIVE RunAlone(_, _, _)
RunAlone(id, envelopes, commands) ==
    IF commands = <<>> THEN envelopes
    ELSE LET r == handle(Fold(DefaultBankAccount, Payloads(envelopes)), Head(commands))
         IN  RunAlone(id,
                      IF r.ok
                      THEN envelopes \o wrap_events(id, Len(envelopes), r.events)
                      ELSE envelopes,
                      Tail(commands))

\* the aggregate ids of the printed lines, in the order printed
PrintedIds == [k \in 1..Len(printed) |-> printed[k].aggregate_id]

\* C17: a step of an execution on one aggregate id changes the stream of no
\* other id, nor what executions on other ids have loaded; a stream changes
\* only by the commit of an execution on its id; and whatever was executed
\* on other ids in between, the stream of an id whose executions ran one
\* after the other is, once none of them is before its commit, the stream
\* that the commands issued on that id, in the order issued, leave when run
\* alone on an empty store.
C17_AggregatesIsolated ==
    [][/\ \A id \in AggregateIds :
             log'[id] # log[id] =>
                /\ \E p \in Procs :
                      agg[p] = id /\ pc[p] = "handled" /\ pc'[p] = "committed"
                /\ \A other \in AggregateIds \ {id} : log'[other] = log[other]
       /\ \A p, q \in Procs :
             (pc'[p] # pc[p] /\ q # p) => (ctx'[q] = ctx[q] /\ pc'[q] = pc[q])
       /\ \A id \in AggregateIds :
             (/\ ~overlapped'[id]
              /\ \A p \in Procs : agg'[p] = id => pc'[p] \in {"committed", "done"})
             => log'[id] = RunAlone(id, <<>>, issued'[id])]_vars

\* C17 witness: the run of test_event_store: a deposit and a check on Z, then
\* on B, then on Z again, all committed; Z holds four events and B two, each
\* stream being what its own commands leave when run alone
C17_Witness ==
    LET deposit == [type |-> "DepositMoney", amount |-> 1]
        check == [type |-> "WriteCheck", check_number |-> "1337", amount |-> 1]
    IN  /\ issued["aggregate-instance-Z"] = <<deposit, check, deposit, check>>
        /\ issued["aggregate-instance-B"] = <<deposit, check>>
        /\ PrintedIds = <<"aggregate-instance-Z", "aggregate-instance-Z",
                          "aggregate-instance-B", "aggregate-instance-B",
                          "aggregate-instance-Z", "aggregate-instance-Z">>
        /\ Len(log["aggregate-instance-Z"]) = 4
        /\ Len(log["aggregate-instance-B"]) = 2
        /\ \A p \in Procs : ~InFlight(p)

\* the line the query prints for an envelope
Line(envelope) ==
    [aggregate_id |-> envelope.aggregate_id,
     sequence |-> envelope.sequence,
     payload |-> envelope.payload]

\* how many of the printed lines are this line
RECURSIVE Count(_, _)
Count(lines, l) ==
    IF lines = <<>> THEN 0
    ELSE (IF Head(lines) = l THEN 1 ELSE 0) + Count(Tail(lines), l)

\* C18: every line the query received is an envelope of the store (it is
\* handed over only after its append), no line was received twice, a
\* successful execution has handed each envelope it committed exactly once,
\* an execution that has committed but not yet dispatched has handed none,
\* a rejected or conflicted attempt has committed and so handed nothing,
\* and dispatch hands the envelopes of a slice in the order of the slice,
\* which for a stream is ascending sequence order.
C18_DispatchedOnceAfterCommit ==
    /\ \A k \in 1..Len(printed) :
          /\ printed[k].aggregate_id \in AggregateIds
          /\ \E j \in 1..Len(log[printed[k].aggregate_id]) :
                Line(log[printed[k].aggregate_id][j]) = printed[k]
          /\ Count(printed, printed[k]) = 1
    /\ \A p \in Procs : \A k \in 1..Len(committed[p]) :
          /\ (pc[p] = "done" /\ status[p] = "ok") =>
                Count(printed, Line(committed[p][k])) = 1
          /\ pc[p] = "committed" => Count(printed, Line(committed[p][k])) = 0
    /\ \A p \in Procs :
          (\/ pc[p] \in {"loaded", "handled", "retry"}
           \/ status[p] \in {"funds not available", "concurrency conflict"})
          => committed[p] = <<>>
    /\ \A id \in AggregateIds :
          LET out == dispatch(id, log[id])
          IN  /\ Len(out) = Len(log[id])
              /\ \A k \in 1..Len(out) : out[k] = Line(log[id][k])
              /\ \A j, k \in 1..Len(out) : j < k => out[j].sequence < out[k].sequence

\* C18 witness: an execution whose first append conflicted has retried,
\* committed at sequence 2 and handed that envelope to the query once, after
\* the winner's
C18_Witness ==
    \E p \in Procs :
        /\ attempts[p] = 1
        /\ pc[p] = "done"
        /\ status[p] = "ok"
        /\ Len(printed) = 2
        /\ printed[2] = Line(committed[p][1])
        /\ printed[2].sequence = 2

\* no command in execution and no committed event has a negative amount
AmountsNonNegative ==
    /\ \A p \in Procs :
          cmd[p].type \in {"DepositMoney", "WithdrawMoney", "WriteCheck"} =>
             cmd[p].amount >= 0
    /\ \A id \in AggregateIds : \A k \in 1..Len(log[id]) :
          log[id][k].payload.type \in BalanceEvents => log[id][k].payload.amount >= 0

\* C19: as long as no command has a negative amount, every committed event
\* carries a balance >= 0, every state replayed from a stream or loaded by
\* an execution has a balance >= 0, and so has every event handle returned;
\* and handle on a state of balance >= 0 with an amount >= 0 returns no
\* event of negative balance.
C19_BalanceNonNegative ==
    /\ AmountsNonNegative =>
          /\ \A id \in AggregateIds :
                /\ \A k \in 1..Len(log[id]) :
                      log[id][k].payload.type \in BalanceEvents =>
                         log[id][k].payload.balance >= 0
                /\ Fold(DefaultBankAccount, Payloads(log[id])).balance >= 0
          /\ \A p \in Procs :
                /\ ctx[p].state.balance >= 0
                /\ \A k \in 1..Len(resultant[p]) : resultant[p][k].balance >= 0
    /\ (/\ result.type = "Handled"
        /\ result.command.type # "OpenAccount"
        /\ result.command.amount >= 0
        /\ LastBalance(given) >= 0)
       => \A k \in 1..Len(result.out.events) : result.out.events[k].balance >= 0

\* C19 witness: a deposit of 1 and then a withdrawal of 1 committed on one
\* stream, the withdrawal carrying balance 0
C19_Witness ==
    /\ AmountsNonNegative
    /\ \E id \in AggregateIds :
          /\ Len(log[id]) = 2
          /\ log[id][1].payload = CustomerDepositedMoney(1, 1)
          /\ log[id][2].payload = CustomerWithdrewCash(1, 0)

\* C20: in every stream, every balance-carrying event carries the balance
\* of the balance-carrying event before it (0 if none) plus its amount for
\* a deposit, minus its amount for a withdrawal or a check.
C20_LedgerConsistent ==
    \A id \in AggregateIds : \A k \in 1..Len(log[id]) :
        LET e == log[id][k].payload
            before == LastBalance(Payloads(SubSeq(log[id], 1, k - 1)))
        IN  /\ e.type = "CustomerDepositedMoney" => e.balance = before + e.amount
            /\ e.type \in {"CustomerWithdrewCash", "CustomerWroteCheck"} =>
                  e.balance = before - e.amount

\* C20 witness: two deposits of 1 raced on an empty stream; the loser
\* retried and committed balance 2 at sequence 2
C20_Witness ==
    \E id \in AggregateIds : \E p \in Procs :
        /\ attempts[p] = 1
        /\ tried[p] = <<1, 2>>
        /\ Len(log[id]) = 2
        /\ log[id][1].payload = CustomerDepositedMoney(1, 1)
        /\ committed[p] = <<Envelope(id, 2, CustomerDepositedMoney(1, 2))>>
        /\ log[id][2] = committed[p][1]

====
